---- MODULE Spec2Model ----
(***************************************************************************)
(* Unity Texture Resizer: the dimension rounder of utils/imageUtils.ts and *)
(* the image-list handlers of App.tsx (handleFiles, processAll,            *)
(* removeImage, clearAll, downloadAll) as a state machine.                 *)
(*                                                                         *)
(* Spec       the App component: the handlers interleaved with the         *)
(*            settling of the promises they await.                         *)
(* FairSpec   Spec plus the fairness that every resizeImage promise        *)
(*            eventually settles.                                          *)
(* SpecRound  calculateTargetDimension applied once and twice to an input  *)
(*            drawn from -MaxNeg .. MaxVal.                                *)
(***************************************************************************)
EXTENDS Integers, Sequences, FiniteSets, TLC

\* ------------------------------------------------------------------ bounds
\* largest dimension handed to calculateTargetDimension in SpecRound
MaxVal == 40
\* the inputs of SpecRound go down to -MaxNeg
MaxNeg == 4
\* image records created by handleFiles over a whole behaviour
MaxImages == 2
\* longest FileList handed to one handleFiles call
MaxBatch == 2

\* ------------------------------------------------------- program constants
\* processedUrl?: string  -- an absent processedUrl
NoUrl == 0

\* ------------------------------------------------------------------- state
VARIABLES
    images,         \* useState<ImageFile[]>: the image list
    isProcessing,   \* useState(false)
    nextId,         \* ids handed out so far + 1 (each record's id is fresh)
    nextUrl,        \* object URLs created for processed blobs so far + 1
    revoked,        \* object URLs passed to URL.revokeObjectURL
    pa_pc,          \* processAll: "idle" | "await" (suspended at await resizeImage)
    pa_images,      \* processAll: the `images` its closure captured
    updatedImages,  \* processAll: const updatedImages = [...images]
    pa_i,           \* processAll: loop index i (1-based)
    pa_img,         \* processAll: const img = updatedImages[i]
    inflight,       \* resizeImage promises not yet settled (indices of pa)
    resizeResults,  \* how the resizeImage calls of the current run settled
    dl_pc,          \* downloadAll: "idle" | "fetch" | "generate" (the await it is at)
    doneImages,     \* downloadAll: const doneImages
    dl_k,           \* downloadAll: position in doneImages (1-based)
    zip,            \* downloadAll: the zip.file(name, blob) calls made so far
    val,            \* SpecRound: the input
    rpc,            \* SpecRound: "init" | "once" | "twice"
    outcome,        \* SpecRound: how the first call ended
    res,            \* SpecRound: calculateTargetDimension(val)
    res2            \* SpecRound: calculateTargetDimension(res)

appVars == <<images, isProcessing, nextId, nextUrl, revoked, pa_pc, pa_images,
             updatedImages, pa_i, pa_img, inflight, resizeResults,
             dl_pc, doneImages, dl_k, zip>>
roundVars == <<val, rpc, outcome, res, res2>>
vars == <<images, isProcessing, nextId, nextUrl, revoked, pa_pc, pa_images,
          updatedImages, pa_i, pa_img, inflight, resizeResults,
          dl_pc, doneImages, dl_k, zip,
          val, rpc, outcome, res, res2>>

\* ------------------------------------------------- utils/imageUtils.ts
\* rem <= 1 instead of rem <= 2: remainder 2 rounds up
calculateTargetDimension_RemLe1(v) ==
    IF v <= 2 THEN v
    ELSE LET rem == v % 4 IN
         IF rem <= 1 THEN v - rem ELSE v + (4 - rem)

\* v <= 3 instead of v <= 2: 3 is preserved too
calculateTargetDimension_Le3(v) ==
    IF v <= 3 THEN v
    ELSE LET rem == v % 4 IN
         IF rem <= 2 THEN v - rem ELSE v + (4 - rem)

\* rounds down by one pixel instead of by the remainder
calculateTargetDimension_Minus1(v) ==
    IF v <= 2 THEN v
    ELSE LET rem == v % 4 IN
         IF rem = 0 THEN v
         ELSE IF rem <= 2 THEN v - 1 ELSE v + (4 - rem)

\* rounds remainder 3 down like the others
calculateTargetDimension_Floor(v) ==
    IF v <= 2 THEN v
    ELSE LET rem == v % 4 IN v - rem

\* calculateTargetDimension(val). Only values > 2 reach `val % 4`, where the
\* JavaScript remainder and the TLA+ modulus agree.
calculateTargetDimension(v) ==
    IF v <= 2 THEN v
    ELSE LET rem == v % 4 IN
         IF rem <= 2 THEN v - rem ELSE v + (4 - rem)

\* ------------------------------------------------------------- the files
\* The File objects a user can hand over: two images that decode (33x35 and
\* 2x2), a file that is no image, and an image whose decoding fails.
Files == {
    [name |-> "a.png",     type |-> "image/png",  width |-> 33, height |-> 35, decodes |-> TRUE],
    [name |-> "b.png",     type |-> "image/png",  width |-> 2,  height |-> 2,  decodes |-> TRUE],
    [name |-> "notes.txt", type |-> "text/plain", width |-> 0,  height |-> 0,  decodes |-> FALSE],
    [name |-> "bad.jpg",   type |-> "image/jpeg", width |-> 0,  height |-> 0,  decodes |-> FALSE] }

\* file.type.startsWith('image/')
IsImageType(t) == t \in {"image/png", "image/jpeg"}

\* the FileLists of at most n files
FileLists(n) == UNION { [1..k -> Files] : k \in 0..n }

\* ------------------------------------------------------------ handleFiles
\* targetHeight computed from the width
NewImage_HeightFromWidth(file, id) ==
    [id |-> id, file |-> file,
     originalWidth |-> file.width, originalHeight |-> file.height,
     targetWidth  |-> calculateTargetDimension(file.width),
     targetHeight |-> calculateTargetDimension(file.width),
     status |-> "pending", processedUrl |-> NoUrl]

\* the record pushed for a file whose dimensions were read
NewImage(file, id) ==
    [id |-> id, file |-> file,
     originalWidth |-> file.width, originalHeight |-> file.height,
     targetWidth  |-> calculateTargetDimension(file.width),
     targetHeight |-> calculateTargetDimension(file.height),
     status |-> "pending", processedUrl |-> NoUrl]

\* the loop over files: a file that is no image is skipped, one whose
\* getImageDimensions rejects is logged and skipped, the others are pushed
RECURSIVE NewImages(_, _, _)
NewImages(files, k, id) ==
    IF k > Len(files) THEN <<>>
    ELSE IF ~IsImageType(files[k].type) \/ ~files[k].decodes
         THEN NewImages(files, k + 1, id)
         ELSE <<NewImage(files[k], id)>> \o NewImages(files, k + 1, id + 1)

HandleFiles ==
    \/ \* files === null
       UNCHANGED vars
    \/ \E files \in FileLists(MaxBatch) :
         LET newImages == NewImages(files, 1, nextId) IN
         /\ nextId + Len(newImages) - 1 <= MaxImages
         /\ images' = images \o newImages
         /\ nextId' = nextId + Len(newImages)
         /\ UNCHANGED <<isProcessing, nextUrl, revoked, pa_pc, pa_images,
                        updatedImages, pa_i, pa_img, inflight, resizeResults,
                        dl_pc, doneImages, dl_k, zip>>
         /\ UNCHANGED roundVars

\* ------------------------------------------------- removeImage, clearAll
ProcessedUrls(imgs) ==
    { imgs[k].processedUrl : k \in 1..Len(imgs) } \ {NoUrl}

RemoveImage ==
    \E k \in 1..Len(images) :
      LET id == images[k].id
          filtered == SelectSeq(images, LAMBDA img : img.id # id)
          removed == images[CHOOSE j \in 1..Len(images) : images[j].id = id
                                   /\ \A h \in 1..(j - 1) : images[h].id # id]
      IN
      /\ images' = filtered
      /\ revoked' = revoked \cup ({removed.processedUrl} \ {NoUrl})
      /\ UNCHANGED <<isProcessing, nextId, nextUrl, pa_pc, pa_images,
                     updatedImages, pa_i, pa_img, inflight, resizeResults,
                     dl_pc, doneImages, dl_k, zip>>
      /\ UNCHANGED roundVars

\* the Clear All button is rendered only while images.length > 0
ClearAll ==
    /\ Len(images) > 0
    /\ revoked' = revoked \cup ProcessedUrls(images)
    /\ images' = <<>>
    /\ UNCHANGED <<isProcessing, nextId, nextUrl, pa_pc, pa_images,
                   updatedImages, pa_i, pa_img, inflight, resizeResults,
                   dl_pc, doneImages, dl_k, zip>>
    /\ UNCHANGED roundVars

\* ------------------------------------------------------------- processAll
\* if (img.status === 'done') continue
SkipImage(img) == img.status = "done"

\* the first index from i on that the loop does not skip; Len(u) + 1 if none
RECURSIVE NextIdx(_, _)
NextIdx(u, i) ==
    IF i > Len(u) THEN i
    ELSE IF SkipImage(u[i]) THEN NextIdx(u, i + 1) ELSE i

\* { ...img, status: 'processing' }
MarkProcessing(img) == [img EXCEPT !.status = "processing"]

\* the status is left at 'processing' when the blob arrives
OnResolved_StatusKept(cur, url) == [cur EXCEPT !.processedUrl = url]

\* { ...updatedImages[i], processedUrl, status: 'done' }
OnResolved(cur, url) == [cur EXCEPT !.processedUrl = url, !.status = "done"]

\* the catch block leaves the record as it was while processing
OnRejected_StatusKept(img) == [img EXCEPT !.status = "processing"]

\* catch (err): { ...img, status: 'error' }
OnRejected(img) == [img EXCEPT !.status = "error"]

\* setIsProcessing(false) is never reached
LoopDone_Never(u, j) == FALSE

\* the for loop's exit test, i < updatedImages.length, fails
LoopDone(u, j) == j > Len(u)

\* The loop of processAll from index i on, over the local list u, up to its
\* next await or its end. `called` tells whether setImages was called in this
\* step before the loop went on (the state updates of one step are batched,
\* the last one wins).
LoopFrom(u, i, called, settled) ==
    LET j == NextIdx(u, i) IN
    IF ~LoopDone(u, j)
    THEN /\ j <= Len(u)
         /\ pa_i' = j
         /\ pa_img' = u[j]
         /\ updatedImages' = [u EXCEPT ![j] = MarkProcessing(u[j])]
         /\ images' = updatedImages'
         /\ inflight' = (inflight \ settled) \cup {j}
         /\ pa_pc' = "await"
         /\ isProcessing' = TRUE
    ELSE /\ pa_i' = j
         /\ pa_img' = pa_img
         /\ updatedImages' = u
         /\ images' = IF called THEN u ELSE images
         /\ inflight' = inflight \ settled
         /\ pa_pc' = "idle"
         /\ isProcessing' = FALSE

\* the Process All button: disabled={isProcessing || images.every(done)}
ProcessAllEnabled ==
    /\ ~isProcessing
    /\ ~(\A k \in 1..Len(images) : images[k].status = "done")

\* a click on Process All, up to the first await resizeImage(...)
ProcessAll ==
    /\ ProcessAllEnabled
    /\ pa_pc = "idle"
    /\ Len(images) # 0
    /\ pa_images' = images
    /\ resizeResults' = <<>>
    /\ LoopFrom(images, 1, FALSE, {})
    /\ UNCHANGED <<nextId, nextUrl, revoked, dl_pc, doneImages, dl_k, zip>>
    /\ UNCHANGED roundVars

\* the awaited resizeImage promise resolves with a blob: the loop body's
\* second half, then the loop up to the next await or the end
ResizeResolve ==
    /\ pa_pc = "await"
    /\ pa_i \in inflight
    /\ LET processedUrl == nextUrl
           u == [updatedImages EXCEPT ![pa_i] = OnResolved(updatedImages[pa_i], processedUrl)]
       IN /\ nextUrl' = nextUrl + 1
          /\ resizeResults' = Append(resizeResults, [i |-> pa_i, ok |-> TRUE])
          /\ LoopFrom(u, pa_i + 1, TRUE, {pa_i})
    /\ UNCHANGED <<nextId, revoked, pa_images, dl_pc, doneImages, dl_k, zip>>
    /\ UNCHANGED roundVars

\* the awaited resizeImage promise rejects (no 2d context, no blob, image
\* load error): the catch block, then the loop up to the next await or the end
ResizeReject ==
    /\ pa_pc = "await"
    /\ pa_i \in inflight
    /\ LET u == [updatedImages EXCEPT ![pa_i] = OnRejected(pa_img)]
       IN /\ resizeResults' = Append(resizeResults, [i |-> pa_i, ok |-> FALSE])
          /\ LoopFrom(u, pa_i + 1, TRUE, {pa_i})
    /\ UNCHANGED <<nextId, nextUrl, revoked, pa_images, dl_pc, doneImages, dl_k, zip>>
    /\ UNCHANGED roundVars

\* ------------------------------------------------------------ downloadAll
\* every image that is not pending is taken
IsDoneImage_NotPending(img) == img.status # "pending"

\* img.status === 'done' && img.processedUrl
IsDoneImage(img) == img.status = "done" /\ img.processedUrl # NoUrl

\* zip.file(img.file.name, blob), blob being what img.processedUrl holds
ZipEntry(img) == [name |-> img.file.name, url |-> img.processedUrl]

\* A click on Download ZIP, up to the return on an empty doneImages or to
\* the first await fetch(...). The calls share no state, so one call at a
\* time is followed.
DownloadAll ==
    /\ dl_pc = "idle"
    /\ LET done == SelectSeq(images, IsDoneImage) IN
       IF Len(done) = 0
       THEN UNCHANGED <<dl_pc, doneImages, dl_k, zip>>
       ELSE /\ dl_pc' = "fetch"
            /\ doneImages' = done
            /\ dl_k' = 1
            /\ zip' = <<>>
    /\ UNCHANGED <<images, isProcessing, nextId, nextUrl, revoked, pa_pc, pa_images,
                   updatedImages, pa_i, pa_img, inflight, resizeResults>>
    /\ UNCHANGED roundVars

\* fetch(img.processedUrl) and response.blob() resolve: zip.file(...); after
\* the last image the call awaits zip.generateAsync
FetchResolve ==
    /\ dl_pc = "fetch"
    /\ doneImages[dl_k].processedUrl \notin revoked
    /\ zip' = Append(zip, ZipEntry(doneImages[dl_k]))
    /\ dl_k' = dl_k + 1
    /\ dl_pc' = IF dl_k = Len(doneImages) THEN "generate" ELSE "fetch"
    /\ UNCHANGED <<images, isProcessing, nextId, nextUrl, revoked, pa_pc, pa_images,
                   updatedImages, pa_i, pa_img, inflight, resizeResults, doneImages>>
    /\ UNCHANGED roundVars

\* fetch of an object URL that was revoked rejects: downloadAll has no
\* catch, the call ends without an archive and its locals are gone
FetchReject ==
    /\ dl_pc = "fetch"
    /\ doneImages[dl_k].processedUrl \in revoked
    /\ dl_pc' = "idle"
    /\ doneImages' = <<>>
    /\ dl_k' = 1
    /\ zip' = <<>>
    /\ UNCHANGED <<images, isProcessing, nextId, nextUrl, revoked, pa_pc, pa_images,
                   updatedImages, pa_i, pa_img, inflight, resizeResults>>
    /\ UNCHANGED roundVars

\* zip.generateAsync resolves with the archive of the zip.file calls made;
\* link.click() hands it to the browser, the call returns and its locals
\* are gone
GenerateResolve ==
    /\ dl_pc = "generate"
    /\ dl_pc' = "idle"
    /\ doneImages' = <<>>
    /\ dl_k' = 1
    /\ zip' = <<>>
    /\ UNCHANGED <<images, isProcessing, nextId, nextUrl, revoked, pa_pc, pa_images,
                   updatedImages, pa_i, pa_img, inflight, resizeResults>>
    /\ UNCHANGED roundVars

\* ------------------------------------------------------ the App component
InitApp ==
    /\ images = <<>>
    /\ isProcessing = FALSE
    /\ nextId = 1
    /\ nextUrl = 1
    /\ revoked = {}
    /\ pa_pc = "idle"
    /\ pa_images = <<>>
    /\ updatedImages = <<>>
    /\ pa_i = 1
    /\ pa_img = [status |-> "none"]
    /\ inflight = {}
    /\ resizeResults = <<>>
    /\ dl_pc = "idle"
    /\ doneImages = <<>>
    /\ dl_k = 1
    /\ zip = <<>>

Init ==
    /\ InitApp
    /\ val = 0
    /\ rpc = "off"
    /\ outcome = "none"
    /\ res = 0
    /\ res2 = 0

Next ==
    \/ HandleFiles
    \/ ProcessAll
    \/ ResizeResolve
    \/ ResizeReject
    \/ RemoveImage
    \/ ClearAll
    \/ DownloadAll
    \/ FetchResolve
    \/ FetchReject
    \/ GenerateResolve

Spec == Init /\ [][Next]_vars

\* every resizeImage promise settles: img.onload or img.onerror fires, and
\* canvas.toBlob calls back
FairSpec == Spec /\ WF_vars(ResizeResolve \/ ResizeReject)

\* ------------------------------------------- the rounder applied to inputs
InitRound ==
    /\ InitApp
    /\ val \in (0 - MaxNeg)..MaxVal
    /\ rpc = "init"
    /\ outcome = "none"
    /\ res = 0
    /\ res2 = 0

\* calculateTargetDimension(val): the function has no throw, it returns
RoundOnce ==
    /\ rpc = "init"
    /\ rpc' = "once"
    /\ outcome' = "returned"
    /\ res' = calculateTargetDimension(val)
    /\ UNCHANGED <<val, res2>>
    /\ UNCHANGED appVars

\* calculateTargetDimension applied to its own result
RoundTwice ==
    /\ rpc = "once"
    /\ rpc' = "twice"
    /\ res2' = calculateTargetDimension(res)
    /\ UNCHANGED <<val, outcome, res>>
    /\ UNCHANGED appVars

NextRound == RoundOnce \/ RoundTwice

SpecRound == InitRound /\ [][NextRound]_vars

\* ================================================================ claims
\* --------------------------------------------------- checked under SpecRound
Called == rpc \in {"once", "twice"}

\* the rounding policy as the specification words it
ReferencePolicy(v) ==
    IF v <= 2 THEN v
    ELSE CASE v % 4 = 0 -> v
           [] v % 4 = 1 -> v - 1
           [] v % 4 = 2 -> v - 2
           [] v % 4 = 3 -> v + 1

\* C1: for every val >= 0, calculateTargetDimension(val) is the reference
\* policy's value: val for val <= 2; else val for remainder 0, val - rem for
\* remainder 1 or 2, val + (4 - rem) for remainder 3. In particular 0 -> 0,
\* 1 -> 1, 2 -> 2, 33 -> 32, 34 -> 32, 35 -> 36, 36 -> 36, 37 -> 36.
C1_ReferencePolicy ==
    (Called /\ val >= 0) =>
        /\ res = ReferencePolicy(val)
        /\ (val = 0 => res = 0)
        /\ (val = 1 => res = 1)
        /\ (val = 2 => res = 2)
        /\ (val = 33 => res = 32)
        /\ (val = 34 => res = 32)
        /\ (val = 35 => res = 36)
        /\ (val = 36 => res = 36)
        /\ (val = 37 => res = 36)

C1_Witness == rpc = "once" /\ val = 34 /\ res = 32

\* C2: for every v > 2, calculateTargetDimension(v) is divisible by 4.
C2_MultipleOf4 == (Called /\ val > 2) => res % 4 = 0

C2_Witness == rpc = "once" /\ val = 3 /\ res = 4

\* C3: calculateTargetDimension is idempotent: applied to its own result it
\* returns that result, for every integer v (negative ones included).
C3_Idempotent == rpc = "twice" => res2 = res

C3_Witness == rpc = "twice" /\ val = 35 /\ res = 36 /\ res2 = 36

\* C4: for every v > 2 the result differs from v by at most 2 downward and
\* at most 1 upward: v - 2 <= result <= v + 1.
C4_AdjustmentBound == (Called /\ val > 2) => (val - 2 <= res /\ res <= val + 1)

C4_Witness == rpc = "once" /\ val = 38 /\ res = 36

\* C5: called with a negative integer, calculateTargetDimension signals
\* InvalidArgument instead of returning a dimension.
C5_NegativeRejected == (Called /\ val < 0) => outcome = "InvalidArgument"

\* -------------------------------------------------------- checked under Spec
Attempted == { resizeResults[n].i : n \in 1..Len(resizeResults) }

\* C6: in a run of processAll a rejected resizeImage is isolated: that image
\* gets status 'error', the loop goes on to every other image that was not
\* done, each image whose resizeImage resolves gets status 'done' and a
\* processedUrl in the image list, and an archive built by downloadAll from a
\* list holding such an image holds it.
C6_Settled ==
    \A n \in 1..Len(resizeResults) :
        LET e == resizeResults[n] IN
        /\ e.ok  => /\ updatedImages[e.i].status = "done"
                    /\ updatedImages[e.i].processedUrl # NoUrl
        /\ ~e.ok => updatedImages[e.i].status = "error"

C6_LoopGoesOn ==
    (pa_pc = "idle" /\ resizeResults # <<>>) =>
        Attempted = { k \in 1..Len(pa_images) : pa_images[k].status # "done" }

C6_Archived ==
    dl_pc = "generate" =>
        \A k \in 1..Len(doneImages) :
            \E n \in 1..Len(zip) :
                /\ zip[n].url = doneImages[k].processedUrl
                /\ zip[n].name = doneImages[k].file.name

C6_Published ==
    (resizeResults' # resizeResults /\ resizeResults' # <<>>) =>
        images' = updatedImages'

C6_Taken ==
    (dl_pc = "idle" /\ dl_pc' = "fetch") =>
        \A k \in 1..Len(images) :
            images[k].status = "done" =>
                \E n \in 1..Len(doneImages') : doneImages'[n] = images[k]

C6_FailureIsolated ==
    /\ [](C6_Settled /\ C6_LoopGoesOn /\ C6_Archived)
    /\ [][C6_Published /\ C6_Taken]_vars

C6_Witness ==
    /\ pa_pc = "idle"
    /\ resizeResults = <<[i |-> 1, ok |-> FALSE], [i |-> 2, ok |-> TRUE]>>
    /\ images = updatedImages
    /\ images[1].status = "error"
    /\ images[2].status = "done"
    /\ dl_pc = "generate"
    /\ zip = <<[name |-> images[2].file.name, url |-> images[2].processedUrl]>>

\* C7: the zip.file calls of a downloadAll call are, in order, exactly the
\* images that had status 'done' and a processedUrl in the list at the time
\* of the call, each under its file's own name (equal names included); the
\* archive is generated from all of them, and a call made when no image is
\* done makes no zip.file call and generates no archive.
DoneAtCall ==
    SelectSeq(images, LAMBDA img : img.status = "done" /\ img.processedUrl # NoUrl)

C7_Call ==
    /\ (dl_pc = "idle" /\ dl_pc' # "idle") =>
          (doneImages' = DoneAtCall /\ DoneAtCall # <<>> /\ zip' = <<>>)
    /\ (dl_pc = "idle" /\ DoneAtCall = <<>>) => (dl_pc' = "idle" /\ zip' = <<>>)
    /\ (dl_pc # "idle" /\ dl_pc' # "idle") => doneImages' = doneImages

C7_Zip ==
    /\ Len(zip) <= Len(doneImages)
    /\ \A n \in 1..Len(zip) :
          /\ zip[n].name = doneImages[n].file.name
          /\ zip[n].url = doneImages[n].processedUrl
          /\ doneImages[n].status = "done"
    /\ dl_pc = "generate" => (Len(zip) = Len(doneImages) /\ Len(zip) > 0)
    /\ dl_pc = "idle" => zip = <<>>

C7_ArchiveExactlyDone == []C7_Zip /\ [][C7_Call]_vars

\* an archive about to be generated with two entries of the same name
C7_Witness ==
    /\ dl_pc = "generate"
    /\ Len(zip) = 2
    /\ zip[1].name = zip[2].name
    /\ zip[1].url # zip[2].url

\* an archive about to be generated from a list that held an image that was
\* not done
C7_WitnessNotDone ==
    /\ dl_pc = "generate"
    /\ Len(zip) = 1
    /\ Len(images) = 2
    /\ \E k \in 1..2 : images[k].status \in {"pending", "processing", "error"}

\* C8: every record of the image list has targetWidth =
\* calculateTargetDimension(originalWidth) and targetHeight =
\* calculateTargetDimension(originalHeight), the original dimensions being
\* the decoded file's; a record is created 'pending', and no step changes
\* the original or target dimensions of a record that stays in the list.
Dimensions(img) ==
    <<img.originalWidth, img.originalHeight, img.targetWidth, img.targetHeight>>

C8_TargetsRounded ==
    \A k \in 1..Len(images) :
        /\ images[k].originalWidth = images[k].file.width
        /\ images[k].originalHeight = images[k].file.height
        /\ images[k].targetWidth = calculateTargetDimension(images[k].originalWidth)
        /\ images[k].targetHeight = calculateTargetDimension(images[k].originalHeight)

C8_DimensionsKept ==
    \A m \in 1..Len(images') :
        /\ \A k \in 1..Len(images) :
              images[k].id = images'[m].id =>
                  Dimensions(images'[m]) = Dimensions(images[k])
        /\ images'[m].id >= nextId =>
              (images'[m].status = "pending" /\ images'[m].processedUrl = NoUrl)

C8_TargetDimensions == []C8_TargetsRounded /\ [][C8_DimensionsKept]_vars

C8_Witness ==
    \E k \in 1..Len(images) :
        /\ images[k].status = "done"
        /\ Dimensions(images[k]) = <<33, 35, 32, 36>>

\* C9: at most one image of the list has status 'processing', and at most
\* one resizeImage promise is unsettled: processAll calls resizeImage for
\* the next image in the step in which the previous promise settles.
Processing(imgs) == { k \in 1..Len(imgs) : imgs[k].status = "processing" }

C9_OneAtATime ==
    /\ Cardinality(Processing(images)) <= 1
    /\ Cardinality(Processing(updatedImages)) <= 1
    /\ Cardinality(inflight) <= 1
    /\ inflight # {} => (pa_pc = "await" /\ inflight = {pa_i} /\ isProcessing)

C9_Witness ==
    /\ Len(images) = 2
    /\ images[1].status \in {"done", "error"}
    /\ images[2].status = "processing"
    /\ inflight = {2}
    /\ Len(resizeResults) = 1

\* ---------------------------------------------------- checked under FairSpec
\* C10: every resizeImage promise settling, a started processAll finishes
\* with isProcessing = false; when it does, the image list is the list it
\* started with, every image 'done' or 'error'; the images that were 'done'
\* at the start were skipped and are unchanged, the others were attempted.
C10_Finish ==
    (isProcessing /\ ~isProcessing') =>
        /\ pa_pc' = "idle"
        /\ inflight' = {}
        /\ Len(images') = Len(pa_images)
        /\ \A k \in 1..Len(pa_images) :
              /\ images'[k].id = pa_images[k].id
              /\ images'[k].status \in {"done", "error"}
              /\ pa_images[k].status = "done" =>
                    (images'[k] = pa_images[k] /\ k \notin Attempted')
              /\ pa_images[k].status # "done" => k \in Attempted'

C10_ProcessAllFinishes ==
    /\ isProcessing ~> ~isProcessing
    /\ [][C10_Finish]_vars

C10_Witness ==
    /\ ~isProcessing
    /\ pa_pc = "idle"
    /\ Len(pa_images) = 2
    /\ pa_images[1].status = "done"
    /\ pa_images[2].status = "error"
    /\ resizeResults = <<[i |-> 2, ok |-> TRUE]>>
    /\ images = updatedImages
    /\ images[1] = pa_images[1]
    /\ images[2].status = "done"

\* -------------------------------------------------------- checked under Spec
IdsOf(imgs) == { imgs[k].id : k \in 1..Len(imgs) }

\* a step of the running processAll: an awaited resizeImage promise settled
RunStep == resizeResults' # resizeResults /\ resizeResults' # <<>>

\* an image that was created and is no longer in the list (removed by
\* removeImage or clearAll) while a run is under way is not in the list
\* after the next step either
C11_RemovedStaysAbsent ==
    \A id \in 1..MaxImages + 1 :
        (isProcessing /\ id < nextId /\ id \notin IdsOf(images)) =>
            id \notin IdsOf(images')

\* an image that handleFiles appended while a run is under way (it is in
\* the list, not in the run's own list) is still in the list after a step
\* of the run, its last one included
C11_AppendedStays ==
    \A id \in 1..MaxImages + 1 :
        (isProcessing /\ RunStep /\ id \in IdsOf(images)
                      /\ id \notin IdsOf(updatedImages)) =>
            id \in IdsOf(images')

\* C11: list edits made while processAll runs are not lost: an image removed
\* by removeImage or clearAll during a run is absent from the list in every
\* later state, and an image appended by handleFiles during a run is still
\* in the list after the run's later status updates and after it finishes.
C11_EditsNotLost == [][C11_RemovedStaysAbsent /\ C11_AppendedStays]_vars

C11_RemovedOnly == [][C11_RemovedStaysAbsent]_vars

C11_AppendedOnly == [][C11_AppendedStays]_vars

====
